---- MODULE Spec2Model ----
(***************************************************************************)
(* Model of src/main.py: ImageTransfer.convert_image_shortcuts and the     *)
(* helpers it calls.                                                       *)
(*                                                                         *)
(* A file name is the sequence of its dot-separated components, so         *)
(* "a.NEF" is <<"a","NEF">>, ".DS_Store" is <<"","DS_Store">> and          *)
(* "a.NEF.lnk" is <<"a","NEF","lnk">>.  A path is a directory and a name.  *)
(* Directory names hold no dot.  The filesystem maps every existing path   *)
(* to its content: a regular file, or a shortcut and the path it points    *)
(* at.                                                                     *)
(*                                                                         *)
(* Spec is a whole call of convert_image_shortcuts.  SyncSpec is the loop  *)
(* over the target tree (lines 195-216) started from every index that the  *)
(* assignments of lines 188-194 can hold, and run a second time.           *)
(***************************************************************************)
EXTENDS Naturals, Sequences, FiniteSets

VARIABLES fs, system, folder, type_priority, pc, scanned_folder,
          processed_scanned_folder, todo, result, run, log, fs0, after1,
          img_dir

vars == <<fs, system, folder, type_priority, pc, scanned_folder,
          processed_scanned_folder, todo, result, run, log, fs0, after1,
          img_dir>>

(* ------------------------------ bounds -------------------------------- *)

MaxTargetFiles == 2

MaxRefFiles == 3

MaxSyncRefFiles == 2

(* --------------------------- names and paths -------------------------- *)

TargetRoot == "T"

TargetSub == "T/sub"

MissingDir == "X"

RefRoot == "R"

RefSub == "R/sub"

NoFolder == "None"

P(d, n) == [dir |-> d, name |-> n]

NoPath == P("", <<>>)

Data == [kind |-> "data", to |-> NoPath]

Link(src) == [kind |-> "link", to |-> src]

TargetPool ==
  { P(TargetRoot, <<"a", "JPG">>),
    P(TargetRoot, <<"a", "NEF", "txt">>),
    P(TargetRoot, <<"", "DS_Store">>),
    P(TargetRoot, <<"", "DS_Store", "JPG">>),
    P(TargetRoot, <<"b", "PNG">>),
    P(TargetSub,  <<"a", "JPG">>) }

RefPool ==
  { P(RefRoot, <<"a", "NEF">>),
    P(RefRoot, <<"a", "JPG">>),
    P(RefRoot, <<"a", "xmp">>),
    P(RefRoot, <<"a", "NEF", "JPG">>),
    P(RefRoot, <<"b", "PNG">>),
    P(RefRoot, <<"", "DS_Store", "JPG">>),
    P(RefSub,  <<"a", "nef">>),
    P(RefSub,  <<"a", "xmp">>) }

Systems == {"Darwin", "Windows", "Linux"}

DefaultPriority == <<"NEF", "TIF", "TIFF", "JPG", "JPEG">>

PriorityArgs == {<<>>, <<"NEF", "JPG">>, <<"JPG", "NEF">>}

(* str.upper() on the extensions that occur *)
Upper(s) ==
  CASE s = "nef" -> "NEF"
    [] s = "jpg" -> "JPG"
    [] s = "xmp" -> "XMP"
    [] s = "txt" -> "TXT"
    [] s = "lnk" -> "LNK"
    [] s = "DS_Store" -> "DS_STORE"
    [] OTHER -> s

(* os.path.splitext: the last dot splits, unless only dots precede it *)
HasExt(name) ==
  Len(name) >= 2 /\ \E i \in 1..(Len(name) - 1) : name[i] # ""

remove_extension(name) ==
  IF HasExt(name) THEN SubSeq(name, 1, Len(name) - 1) ELSE name

(* file.split('.')[-1]: the text after the last dot of the whole path *)
SplitLast(p) ==
  IF Len(p.name) >= 2 THEN p.name[Len(p.name)]
  ELSE p.dir \o "/" \o p.name[1]

(* file.endswith("DS_Store") *)
EndsWithDSStore(p) == p.name[Len(p.name)] = "DS_Store"

(* {ext: idx for idx, ext in enumerate(type_priority)} *)
priority_map(tp) ==
  [e \in {tp[i] : i \in 1..Len(tp)} |->
     CHOOSE i \in 1..Len(tp) :
       tp[i] = e /\ \A j \in 1..Len(tp) : tp[j] = e => j <= i]

(* ------------------------------ filesystem ---------------------------- *)

Under(f, root) ==
  {p \in DOMAIN f : p.dir = root \/ p.dir = root \o "/sub"}

(* scan_folder(folder, recursive=True): the files under the folder; the   *)
(* walk yields a directory's files before its subfolders' files           *)
scan_folder(f, root) == Under(f, root)

WalkNext(rest, root) ==
  IF \E p \in rest : p.dir = root THEN {p \in rest : p.dir = root} ELSE rest

Remove(f, gone) == [p \in DOMAIN f \ gone |-> f[p]]

Put(f, q, c) == [p \in DOMAIN f \cup {q} |-> IF p = q THEN c ELSE f[p]]

(* mutant: the base name is taken up to the first dot of the file name *)
SameBasename_prefix(f, directory, base_name) ==
  {p \in DOMAIN f : p.dir = directory /\ p.name[1] = base_name[1]}

(* mutant: the deletion walks the subfolders too *)
SameBasename_recursive(f, directory, base_name) ==
  {p \in Under(f, directory) : remove_extension(p.name) = base_name}

(* os.listdir(directory) filtered by line 128 *)
SameBasename(f, directory, base_name) ==
  {p \in DOMAIN f : p.dir = directory /\ remove_extension(p.name) = base_name}

delete_files_with_same_basename(f, directory, base_name) ==
  Remove(f, SameBasename(f, directory, base_name))

(* ------------------------- shortcut creation -------------------------- *)

Event(op, path, to, files) ==
  [op |-> op, path |-> path, to |-> to, files |-> files]

(* mutant: the CalledProcessError is reported and raised again *)
create_alias_macos_raising(st, source_file, alias_location, ok) ==
  IF ok
  THEN [st EXCEPT !.fs = Put(st.fs, alias_location, Link(source_file)),
                  !.log = Append(st.log,
                            Event("create", alias_location, source_file, {}))]
  ELSE [st EXCEPT !.exc = "CalledProcessError",
                  !.log = Append(st.log,
                            Event("fail", alias_location, source_file, {}))]

(* create_alias_macos: osascript's non-zero exit (CalledProcessError) is  *)
(* caught inside the function, printed with the script, and the function  *)
(* returns normally                                                       *)
create_alias_macos(st, source_file, alias_location, ok) ==
  IF ok
  THEN [st EXCEPT !.fs = Put(st.fs, alias_location, Link(source_file)),
                  !.log = Append(st.log,
                            Event("create", alias_location, source_file, {}))]
  ELSE [st EXCEPT !.log = Append(st.log,
                            Event("fail", alias_location, source_file, {}))]

(* create_shortcut_windows: IPersistFile.Save writes the link file *)
create_shortcut_windows(st, source_file, shortcut_location) ==
  [st EXCEPT !.fs = Put(st.fs, shortcut_location, Link(source_file)),
             !.log = Append(st.log,
                       Event("create", shortcut_location, source_file, {}))]

(* mutant: the exception is dropped and the caller goes on *)
Raise_swallowed(st, exc, source_file, alias_location) ==
  [st EXCEPT !.log = Append(st.log,
                       Event("raise", alias_location, source_file, {}))]

(* raise FileNotFoundError / OSError: nothing is created *)
Raise(st, exc, source_file, alias_location) ==
  [st EXCEPT !.exc = exc,
             !.log = Append(st.log,
                       Event("raise", alias_location, source_file, {}))]

create_shortcut(st, source_file, alias_location, sys, ok) ==
  IF source_file \notin DOMAIN st.fs
  THEN Raise(st, "FileNotFoundError", source_file, alias_location)
  ELSE IF sys = "Darwin"
  THEN create_alias_macos(st, source_file, alias_location, ok)
  ELSE IF sys = "Windows"
  THEN create_shortcut_windows(st, source_file,
         P(alias_location.dir, alias_location.name \o <<"lnk">>))
  ELSE Raise(st, "OSError", source_file, alias_location)

(* ------------------------------ synchronizer -------------------------- *)

(* mutant: the extension is compared with 'NEF' as it is spelled *)
MatchingFiles_casesensitive(f, matching_file) ==
  LET ext == SplitLast(matching_file)
      xmp_file == P(matching_file.dir,
                    remove_extension(matching_file.name) \o <<"xmp">>)
  IN  IF ext = "NEF" /\ xmp_file \in DOMAIN f
      THEN <<matching_file, xmp_file>>
      ELSE <<matching_file>>

(* lines 202-209: the selected file, and its .xmp sidecar for a NEF *)
MatchingFiles(f, matching_file) ==
  LET ext == Upper(SplitLast(matching_file))
      xmp_file == P(matching_file.dir,
                    remove_extension(matching_file.name) \o <<"xmp">>)
  IN  IF ext = "NEF" /\ xmp_file \in DOMAIN f
      THEN <<matching_file, xmp_file>>
      ELSE <<matching_file>>

(* mutant: the shortcut is named after the source file's name *)
NewFileName_srcname(processed_file, shortcut_source) ==
  shortcut_source.name \o <<SplitLast(shortcut_source)>>

(* line 215 *)
NewFileName(processed_file, shortcut_source) ==
  processed_file \o <<SplitLast(shortcut_source)>>

(* lines 214-216: one shortcut per matching file; an exception leaves the loop *)
RECURSIVE CreateShortcuts(_, _, _, _, _, _, _)
CreateShortcuts(st, matching_files, i, processed_file, dir, sys, oks) ==
  IF i > Len(matching_files) \/ st.exc # ""
  THEN st
  ELSE LET shortcut_source == matching_files[i]
           new_file_name == NewFileName(processed_file, shortcut_source)
       IN  CreateShortcuts(
             create_shortcut(st, shortcut_source, P(dir, new_file_name),
                             sys, oks[i]),
             matching_files, i + 1, processed_file, dir, sys, oks)

(* lines 196-201: is the walked file looked up, and is it matched *)
Skipped(file) == EndsWithDSStore(file)

Matched(file, index) ==
  ~Skipped(file) /\ remove_extension(file.name) \in DOMAIN index

(* lines 196-216: the body of the loop over the target tree, for one file *)
SyncFile(st, file, index, dir, sys, oks) ==
  IF Skipped(file)
  THEN st
  ELSE
    LET processed_file == remove_extension(file.name)
        looked == [st EXCEPT !.log =
                     Append(st.log, Event("lookup", file, NoPath, {}))]
    IN  IF ~Matched(file, index)
        THEN looked
        ELSE
          LET matching_file == index[processed_file]
              matching_files == MatchingFiles(st.fs, matching_file)
              gone == SameBasename(st.fs, dir, processed_file)
              deleted ==
                [looked EXCEPT
                   !.fs = delete_files_with_same_basename(st.fs, dir,
                                                          processed_file),
                   !.log = looked.log \o
                     << Event("match", file, matching_file,
                              {matching_files[i] :
                                 i \in 1..Len(matching_files)}),
                        Event("remove", P(dir, processed_file), NoPath,
                              gone) >>]
          IN  CreateShortcuts(deleted, matching_files, 1, processed_file,
                              dir, sys, oks)

(* ------------------------------- indexer ------------------------------ *)

(* lines 188-194, for one scanned file; line 191 reads the entry of the   *)
(* base name before line 193 tests that there is one                      *)
IndexFile(index, file, tp) ==
  LET pm  == priority_map(tp)
      ext == Upper(SplitLast(file))
      base_name == remove_extension(file.name)
  IN  IF ext \notin DOMAIN pm
      THEN [index |-> index, exc |-> ""]
      ELSE IF base_name \notin DOMAIN index
      THEN [index |-> index, exc |-> "KeyError"]
      ELSE LET processed_sc_bname == index[base_name]
               processed_order == pm[Upper(SplitLast(processed_sc_bname))]
           IN  IF base_name \notin DOMAIN index \/ pm[ext] < processed_order
               THEN [index |-> Put(index, base_name, file), exc |-> ""]
               ELSE [index |-> index, exc |-> ""]

(* ---------------------------- initial states -------------------------- *)

Bounded(S, n) == {X \in SUBSET S : Cardinality(X) <= n}

TreesApart(nref) ==
  { [p \in T \cup R |-> Data] :
      T \in Bounded(TargetPool, MaxTargetFiles),
      R \in Bounded(RefPool, nref) }

InitialFs == TreesApart(MaxRefFiles)

EmptyIndex == [b \in {} |-> NoPath]

NotEnded == [fs |-> [p \in {} |-> Data], clean |-> FALSE]

Init ==
  /\ fs \in InitialFs
  /\ system \in Systems
  /\ folder \in {NoFolder, TargetRoot, MissingDir}
  /\ type_priority \in PriorityArgs
  /\ pc = "start"
  /\ scanned_folder = {}
  /\ processed_scanned_folder = EmptyIndex
  /\ todo = {}
  /\ result = ""
  /\ run = 1
  /\ log = <<>>
  /\ fs0 = fs
  /\ after1 = NotEnded
  /\ img_dir = RefRoot

(* ------------------------------- actions ------------------------------ *)

(* lines 174-186 *)
Call ==
  /\ pc = "start"
  /\ type_priority' = IF type_priority = <<>> THEN DefaultPriority
                      ELSE type_priority
  /\ IF folder = NoFolder
     THEN /\ pc' = "returned"
          /\ result' = "False"
          /\ UNCHANGED <<scanned_folder, processed_scanned_folder>>
     ELSE /\ pc' = "index"
          /\ scanned_folder' = scan_folder(fs, img_dir)
          /\ processed_scanned_folder' = EmptyIndex
          /\ UNCHANGED result
  /\ UNCHANGED <<fs, system, folder, todo, run, log, fs0, after1, img_dir>>

(* lines 187-194, one iteration *)
IndexStep ==
  /\ pc = "index"
  /\ \E file \in WalkNext(scanned_folder, img_dir) :
       LET r == IndexFile(processed_scanned_folder, file, type_priority)
       IN  /\ scanned_folder' = scanned_folder \ {file}
           /\ processed_scanned_folder' = r.index
           /\ IF r.exc # ""
              THEN pc' = "raised" /\ result' = r.exc
              ELSE UNCHANGED <<pc, result>>
  /\ UNCHANGED <<fs, system, folder, type_priority, todo, run, log, fs0,
                 after1, img_dir>>

(* line 195: the target tree is scanned once, before the loop *)
StartSync ==
  /\ pc = "index"
  /\ scanned_folder = {}
  /\ pc' = "sync"
  /\ todo' = scan_folder(fs, folder)
  /\ UNCHANGED <<fs, system, folder, type_priority, scanned_folder,
                 processed_scanned_folder, result, run, log, fs0, after1,
                 img_dir>>

(* lines 195-216, one iteration *)
SyncStep ==
  /\ pc = "sync"
  /\ \E file \in WalkNext(todo, folder), oks \in [1..2 -> BOOLEAN] :
       LET st == SyncFile([fs |-> fs, exc |-> "", log |-> log], file,
                          processed_scanned_folder, folder, system, oks)
       IN  /\ todo' = todo \ {file}
           /\ fs' = st.fs
           /\ log' = st.log
           /\ IF st.exc # ""
              THEN pc' = "raised" /\ result' = st.exc
              ELSE UNCHANGED <<pc, result>>
  /\ UNCHANGED <<system, folder, type_priority, scanned_folder,
                 processed_scanned_folder, run, fs0, after1, img_dir>>

(* the end of the function body: no return statement is reached *)
Return ==
  /\ pc = "sync"
  /\ todo = {}
  /\ pc' = "returned"
  /\ result' = "None"
  /\ UNCHANGED <<fs, system, folder, type_priority, scanned_folder,
                 processed_scanned_folder, todo, run, log, fs0, after1,
                 img_dir>>

Next == Call \/ IndexStep \/ StartSync \/ SyncStep \/ Return

Spec == Init /\ [][Next]_vars

(* --------------------- the synchronizer on its own -------------------- *)

(* What lines 188-194 can store: under a base name, a scanned file of     *)
(* that base name whose upper-cased extension is in the priority map      *)
Indexable(f, root, tp) ==
  {p \in Under(f, root) : Upper(SplitLast(p)) \in DOMAIN priority_map(tp)}

Indexes(f, root, tp) ==
  LET files == Indexable(f, root, tp)
      bases == {remove_extension(p.name) : p \in files}
  IN  UNION { {ix \in [K -> files] :
                 \A b \in K : remove_extension(ix[b].name) = b} :
              K \in SUBSET bases }

TargetOnlyFs ==
  { [p \in T |-> Data] : T \in Bounded(TargetPool, MaxTargetFiles) }

(* the state at line 195, for every index of that shape; the reference    *)
(* tree is either apart from the target tree or the target tree itself    *)
InitSync ==
  /\ \/ img_dir = RefRoot /\ fs \in TreesApart(MaxSyncRefFiles)
     \/ img_dir = TargetRoot /\ fs \in TargetOnlyFs
  /\ system \in Systems
  /\ folder = TargetRoot
  /\ type_priority = DefaultPriority
  /\ processed_scanned_folder \in Indexes(fs, img_dir, type_priority)
  /\ pc = "sync"
  /\ scanned_folder = {}
  /\ todo = scan_folder(fs, folder)
  /\ result = ""
  /\ run = 1
  /\ log = <<>>
  /\ fs0 = fs
  /\ after1 = NotEnded

(* no shortcut call of the run failed or raised *)
Clean(l) == \A i \in 1..Len(l) : l[i].op \notin {"fail", "raise"}

(* a second call with the same arguments; with the reference tree apart   *)
(* from the target tree the run has not changed it, and the same walk     *)
(* rebuilds the same index                                                *)
Rerun ==
  /\ pc \in {"returned", "raised"}
  /\ run = 1
  /\ img_dir = RefRoot
  /\ run' = run + 1
  /\ after1' = [fs |-> fs, clean |-> Clean(log)]
  /\ pc' = "sync"
  /\ todo' = scan_folder(fs, folder)
  /\ log' = <<>>
  /\ result' = ""
  /\ UNCHANGED <<fs, system, folder, type_priority, scanned_folder,
                 processed_scanned_folder, fs0, img_dir>>

NextSync == SyncStep \/ Return \/ Rerun

SyncSpec == InitSync /\ [][NextSync]_vars

(* ============================== the claims ============================ *)

Ended == pc \in {"returned", "raised"}

Keys == DOMAIN processed_scanned_folder

Base(p) == remove_extension(p.name)

Xmp(m) == P(m.dir, remove_extension(m.name) \o <<"xmp">>)

IsNef(m) == SplitLast(m) \in {"NEF", "nef", "Nef"}

(* the replacement set of a selected file m on the filesystem f *)
ReplacementSet(f, m) ==
  IF IsNef(m) /\ Xmp(m) \in DOMAIN f THEN {m, Xmp(m)} ELSE {m}

(* the shortcut files of the target tree, each with the path it points at *)
Shortcuts(f) ==
  {<<p, f[p].to>> : p \in {q \in Under(f, TargetRoot) : f[q].kind = "link"}}

(* the location a shortcut call was made for; the Windows link file      *)
(* carries one more suffix                                               *)
Requested(e) ==
  IF e.op = "create" /\ system = "Windows"
  THEN P(e.path.dir, SubSeq(e.path.name, 1, Len(e.path.name) - 1))
  ELSE e.path

Rank(p) == priority_map(type_priority)[Upper(SplitLast(p))]

(* C1: once the index-building stage is over, no error was raised, the    *)
(* index has exactly one entry per base name that has a file with an      *)
(* extension in the priority list, and the entry is a file of that base   *)
(* name of the smallest rank.                                             *)
C1_IndexBuilt ==
  (pc \in {"sync", "raised"} \/ (pc = "returned" /\ result = "None")) =>
    LET files == Indexable(fs0, img_dir, type_priority)
    IN  /\ result # "KeyError"
        /\ Keys = {Base(p) : p \in files}
        /\ \A b \in Keys :
             /\ processed_scanned_folder[b] \in files
             /\ Base(processed_scanned_folder[b]) = b
             /\ \A q \in files :
                  Base(q) = b => Rank(processed_scanned_folder[b]) <= Rank(q)

(* C2: when the run is over, for every target file whose base name b is   *)
(* in the index the files that were in the target root with base name b   *)
(* are deleted and the root holds one shortcut per replacement file,      *)
(* named b plus the replacement file's extension and pointing at it; with *)
(* reference a.NEF, a.JPG, a.xmp, priority [NEF, JPG] and target a.JPG    *)
(* the run ends with a.JPG deleted and shortcuts a.NEF and a.xmp.         *)
C2_Replaced ==
  (Ended /\ folder = TargetRoot) =>
    /\ \A f \in Under(fs0, TargetRoot) :
         Matched(f, processed_scanned_folder) =>
           LET b == Base(f)
               m == processed_scanned_folder[b]
           IN  /\ \A g \in SameBasename(fs0, TargetRoot, b) :
                    g \in DOMAIN fs => fs[g].kind = "link"
               /\ \A r \in ReplacementSet(fs0, m) :
                    LET s == P(TargetRoot, b \o <<SplitLast(r)>>)
                    IN  s \in DOMAIN fs /\ fs[s] = Link(r)
    /\ ( /\ Under(fs0, RefRoot) = { P(RefRoot, <<"a", "NEF">>),
                                    P(RefRoot, <<"a", "JPG">>),
                                    P(RefRoot, <<"a", "xmp">>) }
         /\ type_priority = <<"NEF", "JPG">>
         /\ P(TargetRoot, <<"a", "JPG">>) \in DOMAIN fs0 )
       => /\ P(TargetRoot, <<"a", "JPG">>) \notin DOMAIN fs
          /\ P(TargetRoot, <<"a", "NEF">>) \in DOMAIN fs
          /\ fs[P(TargetRoot, <<"a", "NEF">>)] = Link(P(RefRoot, <<"a", "NEF">>))
          /\ P(TargetRoot, <<"a", "xmp">>) \in DOMAIN fs
          /\ fs[P(TargetRoot, <<"a", "xmp">>)] = Link(P(RefRoot, <<"a", "xmp">>))

NoForeignMatch ==
  system = "Windows" =>
    \A s \in Shortcuts(after1.fs) : Base(s[1]) \notin Keys

C6_ReplacementSet ==
  [][ \A i \in DOMAIN log' :
        (i > Len(log) /\ log'[i].op = "match") =>
          /\ log'[i].to = processed_scanned_folder[Base(log'[i].path)]
          /\ log'[i].files = ReplacementSet(fs, log'[i].to) ]_vars

(* a lower-case .nef selected, its sidecar in the replacement set *)
C6_Witness ==
  \E i \in DOMAIN log :
    /\ log[i].op = "match"
    /\ SplitLast(log[i].to) = "nef"
    /\ Cardinality(log[i].files) = 2

MatchOf(i) ==
  CHOOSE j \in 1..i :
    log[j].op = "match" /\ \A k \in (j + 1)..i : log[k].op # "match"

C8_ReturnValue ==
  pc = "returned" =>
    result = IF folder \in {NoFolder, MissingDir} THEN "False" ELSE "True"

(* C9: a shortcut call that raises (source file missing, or a host that   *)
(* is neither macOS nor Windows) creates no entry and is the last thing   *)
(* the run does, and what the run deleted stays deleted.                  *)
C9_RaiseHalts ==
  \A i \in DOMAIN log :
    log[i].op = "raise" =>
      /\ i = Len(log)
      /\ pc = "raised"
      /\ result = IF log[i].to \notin DOMAIN fs THEN "FileNotFoundError"
                  ELSE "OSError"
      /\ (result = "OSError" => system \notin {"Darwin", "Windows"})
      /\ log[i].path \notin DOMAIN fs
      /\ P(log[i].path.dir, log[i].path.name \o <<"lnk">>) \notin DOMAIN fs
      /\ \A j \in 1..i :
           log[j].op = "remove" =>
             \A q \in log[j].files :
               q \in DOMAIN fs =>
                 \E k \in (j + 1)..i : log[k].op = "create" /\ log[k].path = q

(* an unsupported host: files deleted, the run over, target files left *)
C9_Witness ==
  /\ pc = "raised"
  /\ result = "OSError"
  /\ todo # {}
  /\ \E j \in DOMAIN log : log[j].op = "remove" /\ log[j].files # {}

(* C10: every deletion and every shortcut creation is directly inside the *)
(* target root: the files of a subfolder stay as they were and no entry   *)
(* appears there, even when a subfolder file's base name is matched.      *)
C10_RootOnly ==
  /\ \A p \in DOMAIN fs0 :
       p.dir = TargetSub => (p \in DOMAIN fs /\ fs[p] = fs0[p])
  /\ \A p \in DOMAIN fs : p.dir = TargetSub => p \in DOMAIN fs0
  /\ \A i \in DOMAIN log :
       /\ log[i].op = "remove" => \A q \in log[i].files : q.dir = TargetRoot
       /\ log[i].op = "create" => log[i].path.dir = TargetRoot

(* a subfolder file matched: the root's files replaced, the run over *)
C10_Witness ==
  /\ pc = "returned"
  /\ \E i \in DOMAIN log : log[i].op = "match" /\ log[i].path.dir = TargetSub
  /\ \E i \in DOMAIN log : log[i].op = "remove" /\ log[i].files # {}
  /\ \E i \in DOMAIN log : log[i].op = "create"

====
